---- MODULE Spec2Model ----
(***************************************************************************)
(* Region resolution (src/rustc/middle/region.rs).                         *)
(*                                                                         *)
(* The pass is one depth-first walk of the syntax tree.  The model walks   *)
(* a tree that is produced node by node: every step is one call of one of  *)
(* the visitor's handlers (resolve_item, resolve_block, ...) on a fresh    *)
(* node, or the return of the innermost handler.  `tree` records the nodes *)
(* visited so far, `stack` the handlers that have not returned yet, and    *)
(* `cxs` the ctxt records that are live.                                   *)
(*                                                                         *)
(* A ctxt is a record with `mut` fields.  A handler receives it by         *)
(* reference (resolve_pat pushes on cx.queued_locals and a later           *)
(* resolve_block reads the push), and `{... with cx}` makes a copy: the    *)
(* copy is a new element of `cxs`, dropped when the handler that made it   *)
(* returns.                                                                *)
(***************************************************************************)
EXTENDS Integers, Sequences, FiniteSets, TLC

\* Bounds of the model.
MaxNodes == 9
MaxDepth == 5
MaxItems == 2
MaxScopes == 4

\* uint arithmetic is modular; the modulus only has to exceed every index.
UintModulus == 2^30

Names == {"a", "b"}
ItemKinds == {"item_fn", "item_impl", "item_other"}
Markers == {"re_inferred", "re_self", "re_named"}
PatDefs == {"def_variant", "def_local"}

VARIABLES
    tree,        \* node id -> the syntax tree node (the input, as visited)
    stack,       \* the handlers that have not returned, outermost first
    cxs,         \* the live ctxt records, outermost first
    parents,                       \* region_map.parents
    ast_type_to_region,            \* region_map.ast_type_to_region
    local_blocks,                  \* region_map.local_blocks
    ast_type_to_inferred_region,   \* region_map.ast_type_to_inferred_region
    rvalue_to_block,               \* region_map.rvalue_to_block
    errs,        \* sess.span_err calls, in order
    allocs,      \* the parameter ids taken from cx.next_param_id, in order
    status,      \* "walking", or "bug" once span_bug has failed the task
    answer,      \* the last query a later pass made of the region map
    nextId       \* the next unused node id

vars == <<tree, stack, cxs, parents, ast_type_to_region, local_blocks,
          ast_type_to_inferred_region, rvalue_to_block, errs, allocs, status,
          answer, nextId>>

maps == <<parents, ast_type_to_region, local_blocks,
          ast_type_to_inferred_region, rvalue_to_block>>

----------------------------------------------------------------------------
\* Helpers.

EmptyMap == [x \in {} |-> 0]

\* hashmap::insert: adds the key, or replaces the value it had.
Insert(m, k, v) == [x \in DOMAIN m \cup {k} |-> IF x = k THEN v ELSE m[x]]

Last(s) == s[Len(s)]
ButLast(s) == SubSeq(s, 1, Len(s) - 1)
SetLast(s, v) == [s EXCEPT ![Len(s)] = v]

\* enum parent
Pa(tag, id) == [tag |-> tag, id |-> id]
pa_crate == Pa("pa_crate", 0)

\* ty::region
re_param(id) == [tag |-> "re_param", id |-> id]
re_block(id) == [tag |-> "re_block", id |-> id]
re_self == [tag |-> "re_self", id |-> 0]

NoAnswer == [fn |-> "", a |-> 0, b |-> 0, val |-> ""]

\* The ctxt resolve_crate starts the walk with.
crate_cx ==
    [bindings |-> <<>>, queued_locals |-> <<>>, parent |-> pa_crate,
     in_alt |-> FALSE, in_typeclass |-> FALSE, next_param_id |-> 0]

Init ==
    /\ tree = EmptyMap
    /\ stack = <<>>
    /\ cxs = <<crate_cx>>
    /\ parents = EmptyMap
    /\ ast_type_to_region = EmptyMap
    /\ local_blocks = EmptyMap
    /\ ast_type_to_inferred_region = EmptyMap
    /\ rvalue_to_block = EmptyMap
    /\ errs = <<>>
    /\ allocs = <<>>
    /\ status = "walking"
    /\ answer = NoAnswer
    /\ nextId = 1

----------------------------------------------------------------------------
\* The queries (region.rs:73-121).

\* scope_contains with the test for a root ahead of the comparison.
RECURSIVE scope_contains_root_first(_, _, _, _)
scope_contains_root_first(ps, superscope, subscope, fuel) ==
    IF subscope \notin DOMAIN ps THEN "false"
    ELSE IF superscope = subscope THEN "true"
    ELSE IF fuel = 0 THEN "diverges"
    ELSE scope_contains_root_first(ps, superscope, ps[subscope], fuel - 1)

\* scope_contains: the loop of lines 78-83, one iteration per unfolding.  The
\* loop has no bound of its own; `fuel` is what a chain without a cycle can
\* need, and "diverges" is the answer of a loop that would not end.
RECURSIVE scope_contains_loop(_, _, _, _)
scope_contains_loop(ps, superscope, subscope, fuel) ==
    IF superscope = subscope THEN "true"
    ELSE IF subscope \notin DOMAIN ps THEN "false"
    ELSE IF fuel = 0 THEN "diverges"
    ELSE scope_contains_loop(ps, superscope, ps[subscope], fuel - 1)

scope_contains(ps, superscope, subscope) ==
    scope_contains_loop(ps, superscope, subscope, Cardinality(DOMAIN ps) + 1)

\* ancestors_of (lines 90-103): the scope, then its parent, ... up to a root.
RECURSIVE ancestors_of(_, _)
ancestors_of(ps, scope) ==
    IF scope \notin DOMAIN ps THEN <<scope>>
    ELSE <<scope>> \o ancestors_of(ps, ps[scope])

\* a_index -= 1u on a uint.
usub1(i) == (i - 1) % UintModulus

\* Vectors are indexed from 0 in the code and from 1 here; an index outside
\* the vector fails the task (the bounds check of the index expression).
InBounds(v, i) == i < Len(v)
At(v, i) == v[i + 1]

Some(x) == [tag |-> "some", val |-> x]
None == [tag |-> "none", val |-> 0]
Fail == [tag |-> "fail", val |-> 0]

\* nearest_common_ancestor returning the entry at a_index, the first one on
\* which the chains differ, instead of the one after it.
RECURSIVE nca_loop_at_index(_, _, _, _)
nca_loop_at_index(a_ancestors, b_ancestors, a_index, b_index) ==
    IF ~InBounds(a_ancestors, a_index) \/ ~InBounds(b_ancestors, b_index)
    THEN Fail
    ELSE IF At(a_ancestors, a_index) = At(b_ancestors, b_index)
    THEN nca_loop_at_index(a_ancestors, b_ancestors,
                           usub1(a_index), usub1(b_index))
    ELSE IF a_index = Len(a_ancestors) THEN None
    ELSE Some(At(a_ancestors, a_index))

\* The loop of lines 111-114 and what follows it (lines 116-120).
RECURSIVE nca_loop(_, _, _, _)
nca_loop(a_ancestors, b_ancestors, a_index, b_index) ==
    IF ~InBounds(a_ancestors, a_index) \/ ~InBounds(b_ancestors, b_index)
    THEN Fail
    ELSE IF At(a_ancestors, a_index) = At(b_ancestors, b_index)
    THEN nca_loop(a_ancestors, b_ancestors, usub1(a_index), usub1(b_index))
    ELSE IF a_index = Len(a_ancestors) THEN None
    ELSE IF ~InBounds(a_ancestors, a_index + 1) THEN Fail
    ELSE Some(At(a_ancestors, a_index + 1))

nearest_common_ancestor(ps, scope_a, scope_b) ==
    IF scope_a = scope_b THEN Some(scope_a)
    ELSE LET a_ancestors == ancestors_of(ps, scope_a)
             b_ancestors == ancestors_of(ps, scope_b)
         IN nca_loop(a_ancestors, b_ancestors,
                     usub1(Len(a_ancestors)), usub1(Len(b_ancestors)))

----------------------------------------------------------------------------
\* The handlers' effects on the ctxt and on the maps.

\* get_inferred_region that hands out the counter's value and leaves the
\* counter where it was.
get_inferred_region_no_bump(cx) ==
    IF cx.parent.tag \in {"pa_fn_item", "pa_nested_fn"}
    THEN [region |-> re_param(cx.next_param_id), cx |-> cx, bug |-> FALSE]
    ELSE IF cx.parent.tag = "pa_block"
    THEN [region |-> re_block(cx.parent.id), cx |-> cx, bug |-> FALSE]
    ELSE IF cx.parent.tag = "pa_item"
    THEN [region |-> re_param(0), cx |-> cx, bug |-> FALSE]
    ELSE [region |-> re_param(0), cx |-> cx, bug |-> TRUE]

\* get_inferred_region that counts in an item as it does in a function.
get_inferred_region_item_counts(cx) ==
    IF cx.parent.tag \in {"pa_fn_item", "pa_nested_fn", "pa_item"}
    THEN [region |-> re_param(cx.next_param_id),
          cx |-> [cx EXCEPT !.next_param_id = (@ + 1) % UintModulus],
          bug |-> FALSE]
    ELSE IF cx.parent.tag = "pa_block"
    THEN [region |-> re_block(cx.parent.id), cx |-> cx, bug |-> FALSE]
    ELSE [region |-> re_param(0), cx |-> cx, bug |-> TRUE]

\* get_inferred_region (lines 123-139): the region, the ctxt after the call,
\* and whether span_bug was called.
get_inferred_region(cx) ==
    IF cx.parent.tag \in {"pa_fn_item", "pa_nested_fn"}
    THEN [region |-> re_param(cx.next_param_id),
          cx |-> [cx EXCEPT !.next_param_id = (@ + 1) % UintModulus],
          bug |-> FALSE]
    ELSE IF cx.parent.tag = "pa_block"
    THEN [region |-> re_block(cx.parent.id), cx |-> cx, bug |-> FALSE]
    ELSE IF cx.parent.tag = "pa_item"
    THEN [region |-> re_param(0), cx |-> cx, bug |-> FALSE]
    ELSE [region |-> re_param(0), cx |-> cx, bug |-> TRUE]

\* list::find that finds nothing: every named marker introduces its name.
list_find_nothing(bindings, ident) ==
    None

\* list::find(*bindings, {|b| ident == b.name}): the first match from the head.
RECURSIVE list_find(_, _)
list_find(bindings, ident) ==
    IF bindings = <<>> THEN None
    ELSE IF Head(bindings).name = ident THEN Some(Head(bindings))
    ELSE list_find(Tail(bindings), ident)

\* The diagnostic of the `alt cx.parent` of lines 175-195, "" when none.
named_region_check(pa) ==
    IF pa.tag \in {"pa_fn_item", "pa_nested_fn"} THEN ""
    ELSE IF pa.tag = "pa_item" THEN "named region not allowed in this context"
    ELSE IF pa.tag = "pa_block" THEN "unknown region"
    ELSE "bug"

\* The re_named arm (lines 160-201): the ctxt after it, the region stored for
\* the marker, the diagnostic reported ("" when none), span_bug or not.
resolve_named(cx, ident) ==
    LET found == list_find(cx.bindings, ident) IN
    IF found.tag = "some"
    THEN [cx |-> cx, store |-> TRUE, region |-> re_param(found.val.id),
          err |-> "", bug |-> FALSE]
    ELSE LET id == cx.next_param_id
             binding == [name |-> ident, id |-> id]
             chk == named_region_check(cx.parent)
         IN [cx |-> [cx EXCEPT !.next_param_id = (@ + 1) % UintModulus,
                               !.bindings = <<binding>> \o @],
             store |-> chk # "bug", region |-> re_param(id),
             err |-> IF chk = "bug" THEN "" ELSE chk, bug |-> chk = "bug"]

\* The `alt ty.node` of lines 145-205.
resolve_marker(cx, marker, ident) ==
    IF marker = "re_inferred"
    THEN [cx |-> cx, store |-> FALSE, region |-> re_self, err |-> "",
          bug |-> FALSE]
    ELSE IF marker = "re_self"
    THEN [cx |-> cx, store |-> cx.in_typeclass, region |-> re_self,
          err |-> IF cx.in_typeclass THEN ""
                  ELSE "the self region is not allowed here",
          bug |-> FALSE]
    ELSE resolve_named(cx, ident)

\* record_parent with the arguments of insert exchanged.
record_parent_swapped(cx, ps, child_id) ==
    IF cx.parent.tag = "pa_crate" THEN ps
    ELSE Insert(ps, cx.parent.id, child_id)

\* record_parent (lines 210-220).
record_parent(cx, ps, child_id) ==
    IF cx.parent.tag = "pa_crate" THEN ps
    ELSE Insert(ps, child_id, cx.parent.id)

\* The loop of lines 227-229.
RECURSIVE resolve_queued(_, _, _)
resolve_queued(queued, lb, blk_id) ==
    IF queued = <<>> THEN lb
    ELSE resolve_queued(Tail(queued), Insert(lb, Head(queued), blk_id), blk_id)

\* The new_cx of resolve_block (lines 232-234).
block_cx(cx, blk_id) ==
    [cx EXCEPT !.parent = Pa("pa_block", blk_id), !.queued_locals = <<>>,
               !.in_alt = FALSE]

\* The new_cx of resolve_arm (line 239).
arm_cx(cx) == [cx EXCEPT !.queued_locals = <<>>, !.in_alt = TRUE]

\* A function expression that starts with no bindings, as a declaration does.
nested_fn_cx_no_bindings(cx, expr_id) ==
    [cx EXCEPT !.parent = Pa("pa_nested_fn", expr_id), !.in_alt = FALSE,
               !.bindings = <<>>]

\* The new_cx of resolve_expr for a function expression (lines 284-285).
nested_fn_cx(cx, expr_id) ==
    [cx EXCEPT !.parent = Pa("pa_nested_fn", expr_id), !.in_alt = FALSE]

\* resolve_item that leaves in_typeclass as the enclosing ctxt has it.
item_cx_keeps_flag(cx, item_id, ik) ==
    [cx EXCEPT !.bindings = <<>>,
               !.parent = IF ik = "item_fn" THEN Pa("pa_fn_item", item_id)
                          ELSE Pa("pa_item", item_id),
               !.in_alt = FALSE,
               !.in_typeclass = (@ \/ ik = "item_impl"),
               !.next_param_id = 0]

\* resolve_item that keeps the bindings and the counter of the enclosing
\* ctxt.
item_cx_keeps_bindings(cx, item_id, ik) ==
    [cx EXCEPT !.parent = IF ik = "item_fn" THEN Pa("pa_fn_item", item_id)
                          ELSE Pa("pa_item", item_id),
               !.in_alt = FALSE,
               !.in_typeclass = (ik = "item_impl")]

\* The new_cx of resolve_item (lines 315-337).
item_cx(cx, item_id, ik) ==
    [cx EXCEPT !.bindings = <<>>,
               !.parent = IF ik = "item_fn" THEN Pa("pa_fn_item", item_id)
                          ELSE Pa("pa_item", item_id),
               !.in_alt = FALSE,
               !.in_typeclass = (ik = "item_impl"),
               !.next_param_id = 0]

\* resolve_pat that does not look at in_alt: the local of an arm's pattern
\* goes to the block around the alt.
resolve_pat_ident_no_queue(cx, lb, pat_id, defn) ==
    IF defn = "def_variant" THEN [cx |-> cx, lb |-> lb, bug |-> FALSE]
    ELSE IF cx.parent.tag = "pa_block"
    THEN [cx |-> cx, lb |-> Insert(lb, pat_id, cx.parent.id), bug |-> FALSE]
    ELSE [cx |-> cx, lb |-> lb, bug |-> TRUE]

\* resolve_pat on a pat_ident (lines 244-275).
resolve_pat_ident(cx, lb, pat_id, defn) ==
    IF defn = "def_variant" THEN [cx |-> cx, lb |-> lb, bug |-> FALSE]
    ELSE IF cx.in_alt
    THEN [cx |-> [cx EXCEPT !.queued_locals = Append(@, pat_id)], lb |-> lb,
          bug |-> FALSE]
    ELSE IF cx.parent.tag = "pa_block"
    THEN [cx |-> cx, lb |-> Insert(lb, pat_id, cx.parent.id), bug |-> FALSE]
    ELSE [cx |-> cx, lb |-> lb, bug |-> TRUE]

\* The insert with the block as the key and the node as the value.
record_rvalue_swapped(cx, rv, node_id) ==
    IF cx.parent.tag = "pa_block"
    THEN [rv |-> Insert(rv, cx.parent.id, node_id), bug |-> FALSE]
    ELSE [rv |-> rv, bug |-> TRUE]

\* The `alt cx.parent` of resolve_expr and resolve_local (lines 291-296 and
\* 304-309): the map after it, span_bug or not.
record_rvalue(cx, rv, node_id) ==
    IF cx.parent.tag = "pa_block"
    THEN [rv |-> Insert(rv, node_id, cx.parent.id), bug |-> FALSE]
    ELSE [rv |-> rv, bug |-> TRUE]

----------------------------------------------------------------------------
\* The walk.  visit::visit_* decides which handler is called next; the shape
\* of the tree is what the parser produces.  A step is one handler called on
\* a fresh node of the tree, up to the point where it hands the walk to a
\* child that is a scope, an alt or an arm; children that no handler of this
\* pass acts on are passed over.

Cx == Last(cxs)
Up == IF stack = <<>> THEN 0 ELSE Last(stack).id
ExprKinds == {"expr_fn", "expr_addr_of", "expr_alt", "block"}

\* Whether a node of this kind can be the next child of the innermost node
\* that is being walked: what the syntax tree allows, in visit's order.
MayVisit(kind, sub) ==
    IF stack = <<>> THEN kind = "item"
    ELSE LET f == Last(stack) IN
      CASE f.kind = "item" /\ f.sub = "item_fn" ->
               \* fn f(<tys>) -> <ty> { body }, or an enum's variant arguments
               f.phase = 0 /\ kind \in {"ty", "block"} /\ sub = ""
        [] f.kind = "item" /\ f.sub = "item_impl" ->
               \* the methods' signatures and bodies
               kind \in {"ty", "block"} /\ sub = ""
        [] f.kind = "item" /\ f.sub = "item_other" ->
               \* a type's or a constant's type, a constant's initialiser
               kind \in {"ty", "expr_addr_of", "expr_alt"} /\ sub = ""
        [] f.kind = "block" ->
               \/ kind \in {"local", "ty"} \cup ExprKinds /\ sub = ""
               \/ kind = "item" /\ sub \in ItemKinds
        [] f.kind = "expr_fn" ->
               f.phase = 0 /\ kind \in {"ty", "block"} /\ sub = ""
        [] f.kind = "expr_alt" -> kind = "arm"
        [] f.kind = "arm" ->
               \* the patterns, then the guard if any, then the body
               \/ f.phase <= 1 /\ kind = "pat"
               \/ f.phase = 1 /\ kind \in ExprKinds /\ sub = "guard"
               \/ f.phase \in {1, 2} /\ kind = "block" /\ sub = "body"
        [] OTHER -> FALSE

\* The innermost node's position after it has handed out this child.
NextPhase(f, kind, sub) ==
    CASE f.kind \in {"item", "expr_fn"} /\ kind = "block" -> 1
      [] f.kind = "arm" /\ kind = "pat" -> 1
      [] f.kind = "arm" /\ sub = "guard" -> 2
      [] f.kind = "arm" /\ sub = "body" -> 3
      [] OTHER -> f.phase

Advanced(kind, sub) ==
    IF stack = <<>> THEN stack
    ELSE SetLast(stack, [Last(stack) EXCEPT !.phase =
                                     NextPhase(Last(stack), kind, sub)])

\* Whether the innermost node has no child left that it must still hand out.
Complete(f) ==
    CASE f.kind = "expr_fn" -> f.phase = 1
      [] f.kind = "arm" -> f.phase = 3
      [] OTHER -> TRUE

\* A node of the tree.  `sub` is the kind of an item, the marker of a
\* reference type, and "guard" or "body" for the guard and the body of an
\* arm; `name` is the lifetime's name of a named marker and what def_map has
\* for a pattern.  `aux` is the node id of the part of the node that has
\* an id of its own: the operand of an address-of, the scrutinee of an alt,
\* the pattern of a local, the region of a reference type; `aux2` is the
\* type a reference type points to.
Node(kind, sub, name, aux, aux2) ==
    [kind |-> kind, up |-> Up, sub |-> sub, name |-> name, aux |-> aux,
     aux2 |-> aux2]
Frame(id, kind, sub, newcx) ==
    [id |-> id, kind |-> kind, sub |-> sub, newcx |-> newcx, phase |-> 0]

\* The number of handler calls so far: one for each node of the tree, and
\* one more for a node with a part that is handed to a handler in the same
\* step (the operand of an address-of, the scrutinee of an alt, the pattern
\* of a local, the type a reference type points to).
TwoCalls == {"local", "ty", "expr_addr_of", "expr_alt"}
Calls ==
    Cardinality(DOMAIN tree)
    + Cardinality({n \in DOMAIN tree : tree[n].kind \in TwoCalls})

\* A handler is entered on a fresh node, which takes `n` node ids.
Enter(kind, sub, n) ==
    /\ status = "walking"
    /\ Calls + (IF kind \in TwoCalls THEN 2 ELSE 1) <= MaxNodes
    /\ MayVisit(kind, sub)
    /\ nextId' = nextId + n
    /\ UNCHANGED answer

\* The handler descends: visit::visit_<kind>(node, cx, visitor).
Descend(kind, sub, newcx) ==
    /\ Len(stack) < MaxDepth
    /\ stack' = Append(Advanced(kind, sub), Frame(nextId, kind, sub, newcx))

\* span_bug that reports and returns, as span_err does.
SpanBug_returns ==
    /\ status' = status
    /\ UNCHANGED <<stack, cxs, maps, errs, allocs>>

\* sess.span_bug: the task fails.
SpanBug ==
    /\ status' = "bug"
    /\ UNCHANGED <<stack, cxs, maps, errs, allocs>>

\* resolve_item that records the declaration's parent as a block does.
resolve_item_records_parent(ik) ==
    /\ Cardinality({n \in DOMAIN tree : tree[n].kind = "item"}) < MaxItems
    /\ Enter("item", ik, 1)
    /\ Descend("item", ik, TRUE)
    /\ tree' = Insert(tree, nextId, Node("item", ik, "", 0, 0))
    /\ cxs' = Append(cxs, item_cx(Cx, nextId, ik))
    /\ parents' = record_parent(Cx, parents, nextId)
    /\ UNCHANGED <<ast_type_to_region, local_blocks,
                   ast_type_to_inferred_region, rvalue_to_block, errs,
                   allocs, status>>

resolve_item(ik) ==
    /\ Cardinality({n \in DOMAIN tree : tree[n].kind = "item"}) < MaxItems
    /\ Enter("item", ik, 1)
    /\ Descend("item", ik, TRUE)
    /\ tree' = Insert(tree, nextId, Node("item", ik, "", 0, 0))
    /\ cxs' = Append(cxs, item_cx(Cx, nextId, ik))
    /\ UNCHANGED <<maps, errs, allocs, status>>

resolve_block(role) ==
    /\ Enter("block", role, 1)
    /\ Descend("block", role, TRUE)
    /\ tree' = Insert(tree, nextId, Node("block", role, "", 0, 0))
    /\ parents' = record_parent(Cx, parents, nextId)
    /\ local_blocks' = resolve_queued(Cx.queued_locals, local_blocks, nextId)
    /\ cxs' = Append(cxs, block_cx(Cx, nextId))
    /\ UNCHANGED <<ast_type_to_region, ast_type_to_inferred_region,
                   rvalue_to_block, errs, allocs, status>>

resolve_arm ==
    /\ Enter("arm", "", 1)
    /\ Descend("arm", "", TRUE)
    /\ tree' = Insert(tree, nextId, Node("arm", "", "", 0, 0))
    /\ cxs' = Append(cxs, arm_cx(Cx))
    /\ UNCHANGED <<maps, errs, allocs, status>>

\* A pattern of an arm that is an identifier.
resolve_pat(defn) ==
    /\ Enter("pat", "", 1)
    /\ tree' = Insert(tree, nextId, Node("pat", "", defn, 0, 0))
    /\ LET r == resolve_pat_ident(Cx, local_blocks, nextId, defn) IN
         IF r.bug
         THEN SpanBug
         ELSE /\ cxs' = SetLast(cxs, r.cx)
              /\ local_blocks' = r.lb
              /\ stack' = Advanced("pat", "")
              /\ UNCHANGED <<parents, ast_type_to_region,
                             ast_type_to_inferred_region, rvalue_to_block,
                             errs, allocs, status>>

\* expr_fn and expr_fn_block (lines 282-287).
resolve_expr_fn(role) ==
    /\ Enter("expr_fn", role, 1)
    /\ Descend("expr_fn", role, TRUE)
    /\ tree' = Insert(tree, nextId, Node("expr_fn", role, "", 0, 0))
    /\ parents' = record_parent(Cx, parents, nextId)
    /\ cxs' = Append(cxs, nested_fn_cx(Cx, nextId))
    /\ UNCHANGED <<ast_type_to_region, local_blocks,
                   ast_type_to_inferred_region, rvalue_to_block, errs, allocs, status>>

\* expr_addr_of and expr_alt (lines 288-298).  The operand (the scrutinee) is
\* an expression no handler acts on.  An alt goes on to its arms.
resolve_expr_rvalue(kind, role) ==
    /\ kind \in {"expr_addr_of", "expr_alt"}
    /\ Enter(kind, role, 2)
    /\ tree' = Insert(tree, nextId, Node(kind, role, "", nextId + 1, 0))
    /\ LET r == record_rvalue(Cx, rvalue_to_block, nextId + 1) IN
         IF r.bug
         THEN SpanBug
         ELSE /\ rvalue_to_block' = r.rv
              /\ IF kind = "expr_alt"
                 THEN Descend(kind, role, FALSE)
                 ELSE stack' = Advanced(kind, role)
              /\ UNCHANGED <<cxs, parents, ast_type_to_region, local_blocks,
                             ast_type_to_inferred_region, errs, allocs,
                             status>>

\* resolve_local on `let <ident>;`: visit_local hands the pattern to
\* resolve_pat.
resolve_local(defn) ==
    /\ Enter("local", "", 2)
    /\ tree' = Insert(tree, nextId, Node("local", "", defn, nextId + 1, 0))
    /\ LET r == record_rvalue(Cx, rvalue_to_block, nextId)
           p == resolve_pat_ident(Cx, local_blocks, nextId + 1, defn)
       IN IF r.bug
          THEN SpanBug
          ELSE /\ rvalue_to_block' = r.rv
               /\ IF p.bug
                  THEN /\ status' = "bug"
                       /\ UNCHANGED <<stack, cxs, local_blocks>>
                  ELSE /\ cxs' = SetLast(cxs, p.cx)
                       /\ local_blocks' = p.lb
                       /\ stack' = Advanced("local", "")
                       /\ UNCHANGED status
               /\ UNCHANGED <<parents, ast_type_to_region,
                              ast_type_to_inferred_region, errs, allocs>>

\* What a step of a handler adds to `allocs`: the node the id was taken
\* for, when the ctxt's next_param_id has moved.
Taken(before, after, node) ==
    IF after.next_param_id # before.next_param_id
    THEN <<[node |-> node, id |-> before.next_param_id]>>
    ELSE <<>>

\* resolve_ty on a reference type `&<marker> T`, T a type that is no
\* reference and has no type inside: the handler, then visit_ty hands T to
\* the handler again.  The type, its region and T are three nodes.
resolve_ty(marker, ident) ==
    /\ marker = "re_named" <=> ident # ""
    /\ Enter("ty", "", 3)
    /\ tree' = Insert(tree, nextId,
                      Node("ty", marker, ident, nextId + 1, nextId + 2))
    /\ LET inf == get_inferred_region(Cx)
           r == resolve_marker(inf.cx, marker, ident)
           inner == get_inferred_region(r.cx)
       IN IF inf.bug
          THEN SpanBug
          ELSE IF r.bug
          THEN /\ ast_type_to_inferred_region' =
                      Insert(ast_type_to_inferred_region, nextId, inf.region)
               /\ status' = "bug"
               /\ UNCHANGED <<stack, cxs, parents, ast_type_to_region,
                              local_blocks, rvalue_to_block, errs, allocs>>
          ELSE /\ ast_type_to_inferred_region' =
                      Insert(Insert(ast_type_to_inferred_region, nextId,
                                    inf.region),
                             nextId + 2, inner.region)
               /\ cxs' = SetLast(cxs, inner.cx)
               /\ errs' = IF r.err = "" THEN errs
                          ELSE Append(errs, [node |-> nextId, msg |-> r.err])
               /\ ast_type_to_region' =
                      IF r.store
                      THEN Insert(ast_type_to_region, nextId + 1, r.region)
                      ELSE ast_type_to_region
               /\ allocs' = allocs \o Taken(Cx, inf.cx, nextId)
                                   \o Taken(inf.cx, r.cx, nextId + 1)
                                   \o Taken(r.cx, inner.cx, nextId + 2)
               /\ stack' = Advanced("ty", "")
               /\ UNCHANGED <<parents, local_blocks, rvalue_to_block, status>>

\* The innermost handler returns; the ctxt it made, if any, is dropped.
Return ==
    /\ status = "walking"
    /\ stack # <<>>
    /\ Complete(Last(stack))
    /\ stack' = ButLast(stack)
    /\ cxs' = IF Last(stack).newcx THEN ButLast(cxs) ELSE cxs
    /\ UNCHANGED <<tree, maps, errs, allocs, status, answer, nextId>>

\* visit_crate has returned: resolve_crate returns cx.region_map as it is.
Done == status = "walking" /\ stack = <<>>

\* A declaration of the crate (not one declared inside a block).
resolve_crate_item(ik) ==
    /\ stack = <<>>
    /\ resolve_item(ik)

\* The walk of a crate of declarations, with blocks, function expressions
\* and type annotations in them.
NextRegions ==
    \/ \E ik \in ItemKinds : resolve_crate_item(ik)
    \/ resolve_block("")
    \/ resolve_expr_fn("")
    \/ \E marker \in Markers, ident \in Names \cup {""} :
           resolve_ty(marker, ident)
    \/ Return

SpecRegions == Init /\ [][NextRegions]_vars

\* The walk of a crate of declarations, with blocks, function expressions,
\* locals, address-of expressions and alts in them.
NextLocals ==
    \/ \E ik \in ItemKinds : resolve_crate_item(ik)
    \/ \E role \in {"", "guard", "body"} : resolve_block(role)
    \/ resolve_arm
    \/ \E defn \in PatDefs : resolve_pat(defn)
    \/ \E role \in {"", "guard"} : resolve_expr_fn(role)
    \/ \E kind \in {"expr_addr_of", "expr_alt"}, role \in {"", "guard"} :
           resolve_expr_rvalue(kind, role)
    \/ \E defn \in PatDefs : resolve_local(defn)
    \/ Return

SpecLocals == Init /\ [][NextLocals]_vars

\* The walks of a crate in which a block may declare items: function and
\* implementation declarations at any depth, and blocks.  In the first the
\* annotations name a lifetime, in the second they are `&self`, in the third
\* there are function expressions and no annotations.
NestedKinds == {"item_fn", "item_impl"}

NextItems ==
    \/ \E ik \in NestedKinds : resolve_item(ik)
    \/ resolve_block("")
    \/ resolve_ty("re_named", "a")
    \/ Return

SpecItems == Init /\ [][NextItems]_vars

NextSelf ==
    \/ \E ik \in NestedKinds : resolve_item(ik)
    \/ resolve_block("")
    \/ resolve_ty("re_self", "")
    \/ Return

SpecSelf == Init /\ [][NextSelf]_vars

NextScopes ==
    \/ \E ik \in NestedKinds : resolve_item(ik)
    \/ resolve_block("")
    \/ resolve_expr_fn("")
    \/ Return

SpecScopes == Init /\ [][NextScopes]_vars

\* The queries a later pass makes of the region map it was handed.  The
\* functions read `parents` alone, so the forest is drawn from the forests
\* on MaxScopes scopes in which no scope is above itself: what the walk
\* leaves in `parents` is such a forest (C7).
RECURSIVE ReachesRootIn(_, _, _)
ReachesRootIn(ps, scope, fuel) ==
    IF scope \notin DOMAIN ps THEN TRUE
    ELSE IF fuel = 0 THEN FALSE
    ELSE ReachesRootIn(ps, ps[scope], fuel - 1)

Acyclic(ps) ==
    \A n \in DOMAIN ps : ReachesRootIn(ps, n, Cardinality(DOMAIN ps))

ScopeIds == 1..MaxScopes
Forests ==
    {ps \in UNION {[S -> ScopeIds] : S \in SUBSET ScopeIds} : Acyclic(ps)}

InitQueries ==
    /\ parents \in Forests
    /\ tree = EmptyMap
    /\ stack = <<>>
    /\ cxs = <<crate_cx>>
    /\ ast_type_to_region = EmptyMap
    /\ local_blocks = EmptyMap
    /\ ast_type_to_inferred_region = EmptyMap
    /\ rvalue_to_block = EmptyMap
    /\ errs = <<>>
    /\ allocs = <<>>
    /\ status = "walking"
    /\ answer = NoAnswer
    /\ nextId = MaxScopes + 1

Asked(fn, a, b, val) ==
    /\ Done
    /\ answer' = [fn |-> fn, a |-> a, b |-> b, val |-> val]
    /\ UNCHANGED <<tree, stack, cxs, maps, errs, allocs, status, nextId>>

ask_scope_contains(superscope, subscope) ==
    Asked("scope_contains", superscope, subscope,
          scope_contains(parents, superscope, subscope))

ask_nearest_common_ancestor(scope_a, scope_b) ==
    Asked("nearest_common_ancestor", scope_a, scope_b,
          nearest_common_ancestor(parents, scope_a, scope_b))

NextQueries ==
    \/ \E a, b \in ScopeIds : ask_scope_contains(a, b)
    \/ \E a, b \in ScopeIds : ask_nearest_common_ancestor(a, b)

SpecQueries == InitQueries /\ [][NextQueries]_vars

----------------------------------------------------------------------------
\* The tree, as the properties below read it.

Nodes == DOMAIN tree
NodesOf(kind) == {n \in Nodes : tree[n].kind = kind}
ScopeKinds == {"item", "block", "expr_fn"}

\* The node and the nodes around it, innermost first, found by at most
\* `fuel` steps up the tree.
RECURSIVE Enclosing(_, _)
Enclosing(n, fuel) ==
    IF n = 0 \/ fuel = 0 THEN <<>>
    ELSE <<n>> \o Enclosing(tree[n].up, fuel - 1)

Around(n) == Enclosing(n, Cardinality(Nodes))

\* The first node of a sequence of nodes that is of one of the kinds, 0 when
\* there is none.
RECURSIVE FirstOf(_, _)
FirstOf(ns, kinds) ==
    IF ns = <<>> THEN 0
    ELSE IF tree[Head(ns)].kind \in kinds THEN Head(ns)
    ELSE FirstOf(Tail(ns), kinds)

\* The declaration a node is in (the node itself, when it is a declaration).
Decl(n) == FirstOf(Around(n), {"item"})

\* Whether node m is node n or is around it.
Inside(n, m) == \E i \in DOMAIN Around(n) : Around(n)[i] = m

\* The scope a node is in: the declaration, block or function expression
\* around it that is nearest to it.
ScopeAround(n) == FirstOf(Tail(Around(n)), ScopeKinds)

\* Whether node n is inside a function expression of its declaration.
InNestedFn(n) == FirstOf(Around(n), {"item", "expr_fn"}) \in NodesOf("expr_fn")

\* The node that has `id` as its own id or as the id of one of its parts.
NodeOfId(id) ==
    CHOOSE n \in Nodes : id \in {n, tree[n].aux, tree[n].aux2}

\* The scopes of the forest, and the chain of a scope read off `parents`
\* as a set: the scope and everything reached from it in at most `fuel`
\* steps.
Scopes == DOMAIN parents \cup {parents[n] : n \in DOMAIN parents}

RECURSIVE UpTo(_, _)
UpTo(scope, fuel) ==
    IF scope \notin DOMAIN parents \/ fuel = 0 THEN {scope}
    ELSE {scope} \cup UpTo(parents[scope], fuel - 1)

Chain(scope) == UpTo(scope, Cardinality(DOMAIN parents))
StrictAncestor(a, b) == a # b /\ a \in Chain(b)
Related(a, b) == a \in Chain(b) \/ b \in Chain(a)

----------------------------------------------------------------------------
\* C1: after a walk that completes, the pattern of a let directly in block B
\* is in local_blocks with B, and a local bound by the pattern of an arm is
\* in local_blocks with the body block of that arm (not the block around the
\* alt, not a block of the arm's guard, not another arm's block).
ArmBody(arm) ==
    CHOOSE b \in Nodes :
        tree[b].up = arm /\ tree[b].kind = "block" /\ tree[b].sub = "body"

C1_LocalOwner ==
    Done =>
        /\ \A l \in NodesOf("local") :
               tree[l].name = "def_local" =>
                   /\ tree[l].aux \in DOMAIN local_blocks
                   /\ tree[tree[l].up].kind = "block"
                   /\ local_blocks[tree[l].aux] = tree[l].up
        /\ \A p \in NodesOf("pat") :
               tree[p].name = "def_local" =>
                   /\ p \in DOMAIN local_blocks
                   /\ local_blocks[p] = ArmBody(tree[p].up)

\* A walk has completed in which an arm binds a local and has a block in
\* its guard, visited between the pattern and the body.
C1_Witness ==
    /\ Done
    /\ \E p \in NodesOf("pat"), g \in Nodes :
           /\ tree[p].name = "def_local"
           /\ tree[g].sub = "guard" /\ tree[g].kind \in {"block", "expr_fn"}
           /\ tree[g].up = tree[p].up
           /\ local_blocks[p] = ArmBody(tree[p].up)

\* C2: within one function-like declaration the ids taken from the counter
\* strictly increase in the order they are taken, so no two are equal.  (It
\* is stated of the walks that report no diagnostic: the ids are all taken
\* in the signatures of the declaration and of its function expressions.)
C2_CounterMonotone ==
    errs = <<>> =>
    \A i, j \in 1..Len(allocs) :
        ( /\ i < j
          /\ Decl(NodeOfId(allocs[i].node)) = Decl(NodeOfId(allocs[j].node))
          /\ tree[Decl(NodeOfId(allocs[i].node))].sub = "item_fn" )
        => allocs[i].id < allocs[j].id

\* C3: within one declaration no two named markers with the same name are in
\* ast_type_to_region with different regions.
NamedMarkers == {t \in NodesOf("ty") : tree[t].sub = "re_named"}

C3_OneIndexPerName ==
    \A t1, t2 \in NamedMarkers :
        ( /\ tree[t1].name = tree[t2].name
          /\ Decl(t1) = Decl(t2)
          /\ tree[t1].aux \in DOMAIN ast_type_to_region
          /\ tree[t2].aux \in DOMAIN ast_type_to_region )
        => ast_type_to_region[tree[t1].aux] = ast_type_to_region[tree[t2].aux]

\* C4: for two distinct scopes one of which is a strict ancestor of the
\* other, nearest_common_ancestor returns None (it does not fail on an index
\* out of bounds).
AskedNca == answer.fn = "nearest_common_ancestor"
AskedContains == answer.fn = "scope_contains"

C4_AncestorGivesNone ==
    ( /\ AskedNca
      /\ StrictAncestor(answer.a, answer.b) \/ StrictAncestor(answer.b, answer.a) )
    => answer.val = None

\* C5: for two scopes of one tree that are equal, or neither an ancestor of
\* the other, nearest_common_ancestor returns Some(c), c the deepest scope
\* that both chains hold: c is on both chains and every scope on both chains
\* is on the chain of c.
C5_Case ==
    /\ AskedNca
    /\ Chain(answer.a) \cap Chain(answer.b) # {}
    /\ answer.a = answer.b \/ ~Related(answer.a, answer.b)

C5_DeepestCommon ==
    C5_Case =>
        /\ answer.val.tag = "some"
        /\ answer.val.val \in Chain(answer.a) \cap Chain(answer.b)
        /\ Chain(answer.a) \cap Chain(answer.b) \subseteq Chain(answer.val.val)
        /\ answer.a = answer.b => answer.val = Some(answer.a)

\* Two scopes with one parent were asked about, and the answer is the parent.
C5_Witness ==
    /\ C5_Case
    /\ answer.a # answer.b
    /\ answer.a \in DOMAIN parents /\ answer.b \in DOMAIN parents
    /\ parents[answer.a] = parents[answer.b]
    /\ answer.val = Some(parents[answer.a])

\* C6: scope_contains(outer, inner) terminates, and is true exactly when
\* outer is on the chain of inner; so it is true of a scope and itself, and
\* if outer contains inner it contains what inner contains.
C6_ContainsIsChain ==
    AskedContains =>
        /\ answer.val \in {"true", "false"}
        /\ answer.val = "true" <=> answer.a \in Chain(answer.b)
        /\ answer.a = answer.b => answer.val = "true"
        /\ answer.val = "true" =>
               \A c \in ScopeIds :
                   scope_contains(parents, answer.b, c) = "true"
                   => scope_contains(parents, answer.a, c) = "true"

\* A scope was asked about a scope two levels below it, which itself
\* contains a third one.
C6_Witness ==
    /\ AskedContains
    /\ answer.val = "true"
    /\ answer.b \in DOMAIN parents
    /\ parents[answer.b] # answer.a /\ answer.a # answer.b
    /\ \E c \in DOMAIN parents : parents[c] = answer.b

\* C7: at every point of the walk, following `parents` from an entry comes
\* to a scope with no entry, and the parent recorded for a block or a
\* function expression is the scope around it that is nearest to it.
C7_ParentsForest ==
    /\ Acyclic(parents)
    /\ \A n \in NodesOf("block") \cup NodesOf("expr_fn") :
           /\ n \in DOMAIN parents
           /\ parents[n] = ScopeAround(n)
    /\ \A n \in DOMAIN parents : tree[n].kind \in {"block", "expr_fn"}

\* The body block of an arm is recorded with the block around the alt.
C7_Witness ==
    \E b \in NodesOf("block") :
        /\ tree[b].sub = "body"
        /\ tree[tree[tree[tree[b].up].up].up].kind = "block"
        /\ parents[b] = tree[tree[tree[b].up].up].up

\* C8: a named marker for which "unknown region" or "named region not
\* allowed in this context" was reported has no entry in ast_type_to_region.
NamedErrors == {"unknown region", "named region not allowed in this context"}

C8_ErrorLeavesNoEntry ==
    \A i \in 1..Len(errs) :
        errs[i].msg \in NamedErrors
        => tree[errs[i].node].aux \notin DOMAIN ast_type_to_region

\* C9: no step writes a key that one of the five maps already has.  (A step
\* that puts another value on a key has written it again.)
WriteOnce(m, mNext) == \A k \in DOMAIN m : k \in DOMAIN mNext /\ mNext[k] = m[k]

C9_WriteOnce ==
    [][ /\ WriteOnce(parents, parents')
        /\ WriteOnce(ast_type_to_region, ast_type_to_region')
        /\ WriteOnce(ast_type_to_inferred_region, ast_type_to_inferred_region')
        /\ WriteOnce(local_blocks, local_blocks')
        /\ WriteOnce(rvalue_to_block, rvalue_to_block') ]_vars

\* C10: a named marker in a function expression of a function-like
\* declaration, with the name of a marker of the declaration's signature, is
\* stored with the region of that marker; no id is taken for the name and no
\* diagnostic is reported for it.
SignatureMarkers(d) == {s \in NamedMarkers : tree[s].up = d}

C10_Refers(t, s) ==
    /\ InNestedFn(t)
    /\ tree[Decl(t)].sub = "item_fn"
    /\ s \in SignatureMarkers(Decl(t))
    /\ tree[s].name = tree[t].name

C10_InheritsOuterName ==
    \A t, s \in NamedMarkers :
        C10_Refers(t, s) =>
            /\ tree[t].aux \in DOMAIN ast_type_to_region
            /\ tree[s].aux \in DOMAIN ast_type_to_region
            /\ ast_type_to_region[tree[t].aux] = ast_type_to_region[tree[s].aux]
            /\ \A i \in 1..Len(allocs) : allocs[i].node # tree[t].aux
            /\ \A i \in 1..Len(errs) : errs[i].node # t

\* A marker in a function expression, inside a block of the body, names a
\* lifetime of the signature.
C10_Witness ==
    \E t, s \in NamedMarkers :
        /\ C10_Refers(t, s)
        /\ tree[t].up \in NodesOf("expr_fn")
        /\ ast_type_to_region[tree[t].aux] = ast_type_to_region[tree[s].aux]

----------------------------------------------------------------------------
\* C11: in the signature of one function-like declaration, an elided
\* reference annotation visited before another has a default re_param with
\* a smaller index.  (Node ids are given out in the order of the visit.)
ElidedIn(d) ==
    {t \in NodesOf("ty") : tree[t].sub = "re_inferred" /\ tree[t].up = d}

C11_ElidedOrder ==
    \A d \in NodesOf("item") :
        tree[d].sub = "item_fn" =>
            \A t1, t2 \in ElidedIn(d) :
                t1 < t2 =>
                    /\ t1 \in DOMAIN ast_type_to_inferred_region
                    /\ t2 \in DOMAIN ast_type_to_inferred_region
                    /\ ast_type_to_inferred_region[t1].tag = "re_param"
                    /\ ast_type_to_inferred_region[t2].tag = "re_param"
                    /\ ast_type_to_inferred_region[t1].id
                           < ast_type_to_inferred_region[t2].id

\* Three elided annotations in one signature have their defaults.
C11_Witness ==
    \E d \in NodesOf("item") :
        /\ tree[d].sub = "item_fn"
        /\ \E t1, t2, t3 \in ElidedIn(d) :
               /\ t1 < t2 /\ t2 < t3
               /\ ast_type_to_inferred_region[t1].id
                      < ast_type_to_inferred_region[t2].id
               /\ ast_type_to_inferred_region[t2].id
                      < ast_type_to_inferred_region[t3].id

\* C12: two named markers with one name in the signature of one
\* function-like declaration are both in ast_type_to_region with
\* re_param(k), k the index taken from the counter when the first of them
\* was visited.
SameNameInSignature(s1, s2) ==
    /\ s1 < s2
    /\ tree[s1].up = tree[s2].up
    /\ tree[tree[s1].up].kind = "item"
    /\ tree[tree[s1].up].sub = "item_fn"
    /\ tree[s1].name = tree[s2].name
    /\ \A s \in NamedMarkers :
           tree[s].up = tree[s1].up /\ tree[s].name = tree[s1].name => s1 <= s

C12_SameNameSameIndex ==
    \A s1, s2 \in NamedMarkers :
        SameNameInSignature(s1, s2) =>
            /\ tree[s1].aux \in DOMAIN ast_type_to_region
            /\ tree[s2].aux \in DOMAIN ast_type_to_region
            /\ ast_type_to_region[tree[s1].aux].tag = "re_param"
            /\ ast_type_to_region[tree[s2].aux] = ast_type_to_region[tree[s1].aux]
            /\ \E i \in 1..Len(allocs) :
                   /\ allocs[i].node = tree[s1].aux
                   /\ allocs[i].id = ast_type_to_region[tree[s1].aux].id
            /\ \A i \in 1..Len(allocs) : allocs[i].node # tree[s2].aux

\* A signature names a, then b, then a again: the second a has the index
\* of the first, which is not the index of b.
C12_Witness ==
    \E s1, s2, s3 \in NamedMarkers :
        /\ SameNameInSignature(s1, s3)
        /\ s1 < s2 /\ s2 < s3
        /\ tree[s2].up = tree[s1].up
        /\ tree[s2].name # tree[s1].name
        /\ ast_type_to_region[tree[s3].aux] = ast_type_to_region[tree[s1].aux]
        /\ ast_type_to_region[tree[s2].aux] # ast_type_to_region[tree[s1].aux]

\* C13: for two distinct scopes whose parent chains end in different roots,
\* nearest_common_ancestor returns None (it returns no scope and does not
\* fail on an index out of bounds).
C13_DifferentRootsGiveNone ==
    ( /\ AskedNca
      /\ answer.a # answer.b
      /\ Chain(answer.a) \cap Chain(answer.b) = {} )
    => answer.val = None

\* C14: a `&self` marker visited with in_typeclass clear reports exactly one
\* diagnostic and gets no entry in ast_type_to_region; visited with the flag
\* set it is stored as re_self and nothing is reported.  The flag is set
\* exactly when the declaration the marker is in (the innermost one) is an
\* implementation; the walk goes on to the type the marker's type points to.
SelfMarkers == {t \in NodesOf("ty") : tree[t].sub = "re_self"}
ErrorsAt(t) == {i \in 1..Len(errs) : errs[i].node = t}

C14_SelfRegion ==
    /\ \A t \in SelfMarkers :
           /\ tree[t].aux2 \in DOMAIN ast_type_to_inferred_region
           /\ IF tree[Decl(t)].sub = "item_impl"
              THEN /\ tree[t].aux \in DOMAIN ast_type_to_region
                   /\ ast_type_to_region[tree[t].aux] = re_self
                   /\ ErrorsAt(t) = {}
              ELSE /\ tree[t].aux \notin DOMAIN ast_type_to_region
                   /\ Cardinality(ErrorsAt(t)) = 1
                   /\ \A i \in ErrorsAt(t) :
                          errs[i].msg = "the self region is not allowed here"
    /\ \A k \in 1..Len(stack) :
           cxs[k + 1].in_typeclass
               <=> tree[Decl(stack[k].id)].sub = "item_impl"

\* An implementation has `&self` in a block of a method, a function declared
\* in that block has `&self` too, and after it the block has `&self` again.
C14_Witness ==
    \E t1, t2, t3 \in SelfMarkers :
        /\ t1 < t2 /\ t2 < t3
        /\ Decl(t1) = Decl(t3)
        /\ tree[t1].up = tree[t3].up
        /\ tree[Decl(t1)].sub = "item_impl"
        /\ tree[Decl(t2)].sub = "item_fn"
        /\ Inside(Decl(t2), Decl(t1))
        /\ ErrorsAt(t2) # {} /\ ErrorsAt(t3) = {}
        /\ tree[t3].aux \in DOMAIN ast_type_to_region

\* C15: when an address-of, an alt or a local is visited with a block B as
\* the current scope, rvalue_to_block has operand -> B (the operand of the
\* address-of, the scrutinee of the alt) or local -> B, and B is the
\* innermost block around the node, also for an expression in the guard of
\* an arm.
RvalueNodes == NodesOf("expr_addr_of") \cup NodesOf("expr_alt")
NearestBlock(n) == FirstOf(Tail(Around(n)), {"block"})

C15_RvalueOwner ==
    /\ \A e \in RvalueNodes :
           tree[ScopeAround(e)].kind = "block" =>
               /\ tree[e].aux \in DOMAIN rvalue_to_block
               /\ rvalue_to_block[tree[e].aux] = ScopeAround(e)
               /\ ScopeAround(e) = NearestBlock(e)
    /\ \A l \in NodesOf("local") :
           tree[ScopeAround(l)].kind = "block" =>
               /\ l \in DOMAIN rvalue_to_block
               /\ rvalue_to_block[l] = ScopeAround(l)
               /\ ScopeAround(l) = NearestBlock(l)

\* An address-of in the guard of an arm is recorded with the block around
\* the alt.
C15_Witness ==
    \E e \in NodesOf("expr_addr_of") :
        /\ tree[e].sub = "guard"
        /\ tree[tree[e].up].kind = "arm"
        /\ tree[e].aux \in DOMAIN rvalue_to_block
        /\ rvalue_to_block[tree[e].aux] = tree[tree[tree[e].up].up].up
        /\ tree[rvalue_to_block[tree[e].aux]].kind = "block"

\* C16: the ctxt a declaration hands to its children has no bindings and
\* the counter at 0, whatever was visited before and also for a declaration
\* in a block of another one: the first index taken in a function-like
\* declaration is 0, the first marker of a name in a declaration does not
\* find the name (it takes an index), and no step taken while a declaration
\* is being walked, nor its return, changes a ctxt of the handlers around it.
AllocDecl == [i \in 1..Len(allocs) |-> Decl(NodeOfId(allocs[i].node))]
AllocsIn(d) == {i \in 1..Len(allocs) : AllocDecl[i] = d}

C16_Fresh ==
    LET dec == AllocDecl
        of == [t \in NamedMarkers |-> Decl(t)]
    IN /\ \A i \in 1..Len(allocs) :
              ( /\ tree[dec[i]].sub = "item_fn"
                /\ \A j \in 1..(i - 1) : dec[j] # dec[i] )
              => allocs[i].id = 0
       /\ \A t \in NamedMarkers :
              ( /\ status = "walking"
                /\ \A s \in NamedMarkers :
                       of[s] = of[t] /\ tree[s].name = tree[t].name => t <= s )
              => \E i \in 1..Len(allocs) : allocs[i].node = tree[t].aux

C16_Entered ==
    ( /\ Len(stack') = Len(stack) + 1
      /\ Last(stack').kind = "item" )
    => /\ ButLast(cxs') = cxs
       /\ Last(cxs').bindings = <<>>
       /\ Last(cxs').next_param_id = 0

C16_Around ==
    \A j \in 1..Len(stack) :
        stack[j].kind = "item" =>
            \A k \in 1..j : k <= Len(cxs') /\ cxs'[k] = cxs[k]

C16_ItemResets ==
    []C16_Fresh /\ [][C16_Entered /\ C16_Around]_vars

\* A function declared in a block of a function whose signature has `&a`
\* has `&a` itself, and the block has `&a` after it: the inner marker takes
\* an index of its own, the one after it finds the outer binding.
C16_Witness ==
    \E s, t, u \in NamedMarkers :
        /\ s < t /\ t < u
        /\ tree[s].name = tree[t].name /\ tree[t].name = tree[u].name
        /\ tree[tree[s].up].kind = "item" /\ tree[tree[s].up].sub = "item_fn"
        /\ tree[tree[t].up].kind = "item" /\ tree[tree[t].up].sub = "item_fn"
        /\ tree[s].up # tree[t].up
        /\ Inside(tree[t].up, tree[s].up)
        /\ tree[u].up = tree[tree[t].up].up
        /\ \E i \in AllocsIn(tree[t].up) : allocs[i].node = tree[t].aux
        /\ \E i \in AllocsIn(tree[t].up) : allocs[i].id = 0
        /\ \A i \in 1..Len(allocs) : allocs[i].node # tree[u].aux
        /\ ast_type_to_region[tree[u].aux] = ast_type_to_region[tree[s].aux]
        /\ errs = <<>>

\* C17: an address-of or an alt visited while the current scope is not a
\* block (and likewise a local, a pattern, or an annotation at crate level)
\* fails the task at that node: the step that reports it writes no map, the
\* node is the last one visited, no step follows, and resolve_crate does not
\* return a region map.
OutsideBlock == {e \in RvalueNodes : tree[ScopeAround(e)].kind # "block"}

C17_Failed ==
    /\ \A e \in OutsideBlock :
           /\ status = "bug"
           /\ \A n \in Nodes : n <= e
           /\ tree[e].aux \notin DOMAIN rvalue_to_block
    /\ status = "bug" => ~Done /\ answer = NoAnswer

C17_Abort ==
    /\ []C17_Failed
    /\ [][ /\ status # "bug"
           /\ status' = "bug" => maps' = maps /\ errs' = errs ]_vars

\* The task has failed on an address-of in a constant's initialiser, after
\* a function with a block was walked.
C17_Witness ==
    /\ status = "bug"
    /\ parents # EmptyMap
    /\ \E e \in OutsideBlock :
           tree[e].kind = "expr_addr_of" /\ tree[tree[e].up].sub = "item_other"

\* C18: every type visited gets one default in ast_type_to_inferred_region,
\* by the kind of the current scope: in a function item or a function
\* expression re_param(k), k the counter before the visit, and the counter
\* becomes k + 1; in a block re_block of that block, counter unchanged; in
\* another item re_param(0), counter unchanged.  A step visits a reference
\* type and then the type it points to; `m` is the index the marker takes for
\* a name it introduces between the two, and the counter is compared when
\* the marker takes none.
C18_Visited ==
    tree' # tree /\ tree'[nextId].kind = "ty" /\ status' = "walking"

C18_Default ==
    LET cx == Cx
        k == cx.next_param_id
        t == nextId
        p == tree'[nextId].aux2
        intro == /\ tree'[t].sub = "re_named"
                 /\ \A i \in 1..Len(cx.bindings) :
                        cx.bindings[i].name # tree'[t].name
        m == IF intro THEN 1 ELSE 0
        after == Last(cxs').next_param_id
        dflt == ast_type_to_inferred_region'
    IN /\ t \notin DOMAIN ast_type_to_inferred_region
       /\ p \notin DOMAIN ast_type_to_inferred_region
       /\ DOMAIN dflt = DOMAIN ast_type_to_inferred_region \cup {t, p}
       /\ CASE cx.parent.tag \in {"pa_fn_item", "pa_nested_fn"} ->
                 /\ dflt[t] = re_param(k)
                 /\ dflt[p] = re_param(k + 1 + m)
                 /\ ~intro => after = k + 2
            [] cx.parent.tag = "pa_block" ->
                 /\ dflt[t] = re_block(cx.parent.id)
                 /\ dflt[p] = re_block(cx.parent.id)
                 /\ ~intro => after = k
            [] cx.parent.tag = "pa_item" ->
                 /\ dflt[t] = re_param(0)
                 /\ dflt[p] = re_param(0)
                 /\ ~intro => after = k
            [] OTHER -> FALSE

C18_DefaultByScope ==
    [][C18_Visited => C18_Default]_vars

\* An annotation of a signature has re_param(0), one in the body's block
\* has the block, and one in the signature of a function expression of that
\* block has the index after those of the signature.
C18_Witness ==
    \E t1, t2, t3 \in NodesOf("ty") :
        /\ tree[tree[t1].up].kind = "item"
        /\ ast_type_to_inferred_region[t1] = re_param(0)
        /\ tree[tree[t3].up].kind = "block"
        /\ ast_type_to_inferred_region[t3] = re_block(tree[t3].up)
        /\ ast_type_to_inferred_region[tree[t3].aux2] = re_block(tree[t3].up)
        /\ tree[tree[t2].up].kind = "expr_fn"
        /\ tree[tree[t2].up].up = tree[t3].up
        /\ ast_type_to_inferred_region[t2] = re_param(2)

\* C19: a named marker that is not found while the current scope is a block
\* or an item that is no function takes no index and pushes no binding: no
\* index is taken for a marker that one of the two diagnostics was reported
\* for, and a later marker with the same name in the same scope has the
\* diagnostic again.
C19_NoBindingOnError ==
    \A i \in 1..Len(errs) :
        errs[i].msg \in NamedErrors =>
            /\ \A j \in 1..Len(allocs) :
                   allocs[j].node # tree[errs[i].node].aux
            /\ \A u \in NamedMarkers :
                   ( /\ errs[i].node < u
                     /\ tree[u].up = tree[errs[i].node].up
                     /\ tree[u].name = tree[errs[i].node].name )
                   => ErrorsAt(u) # {}

\* C20: no declaration is a key of `parents`, also one declared in a block
\* of another declaration.  An entry of `parents` is never changed, and when
\* a scope S is entered the parent chain of S ends at the innermost
\* declaration around S, and no block around that declaration contains S.
\* (The handlers that have not returned are the nodes around S.)
ItemFrames == {k \in 1..Len(stack) : stack[k].kind = "item"}

C20_Entered(s) ==
    \E k \in ItemFrames :
        /\ \A j \in ItemFrames : j <= k
        /\ Last(ancestors_of(parents', s)) = stack[k].id
        /\ scope_contains(parents', stack[k].id, s) = "true"
        /\ \A j \in 1..(k - 1) :
               /\ scope_contains(parents', stack[j].id, s) = "false"
               /\ stack[j].id \notin DOMAIN parents => stack[j].kind = "item"

C20_ItemsAreRoots ==
    /\ [](\A d \in NodesOf("item") : d \notin DOMAIN parents)
    /\ [][ /\ WriteOnce(parents, parents')
           /\ \A s \in DOMAIN parents' \ DOMAIN parents : C20_Entered(s) ]_vars

\* A function declared in a block B of a function has a body block with a
\* function expression S: the chain of S ends at the inner function, and B
\* does not contain S.
C20_Witness ==
    \E b \in NodesOf("block"), s \in NodesOf("expr_fn") :
        /\ tree[Decl(s)].up = b
        /\ tree[Decl(b)].sub = "item_fn" /\ tree[Decl(s)].sub = "item_fn"
        /\ Len(ancestors_of(parents, s)) = 3
        /\ Last(ancestors_of(parents, s)) = Decl(s)
        /\ scope_contains(parents, b, s) = "false"
        /\ scope_contains(parents, Decl(s), s) = "true"

====
